---- MODULE Spec2Model ----
(***************************************************************************)
(* Divvy bike share pipeline: the load-or-build block of                   *)
(* divvy_bike_share_analysis.py (raw file discovery, per-file cleaning,    *)
(* combination, cache persistence and cache load) followed by the feature  *)
(* engineering, KPI and chart steps, over a sequence of runs sharing one   *)
(* cache; and divvy_bike_export_excel.py, which reads the same cache and   *)
(* writes the KPIs and aggregates as sheets of a workbook.                 *)
(*                                                                         *)
(* Time is counted in seconds.  trip_duration_minutes is the rational      *)
(* seconds/60 of the source; the model holds its numerator (the number of  *)
(* seconds), so "minutes > 0" reads "seconds > 0" and "minutes <= 24*60"   *)
(* reads "seconds <= 24*60*60".                                            *)
(***************************************************************************)
EXTENDS Integers, Sequences, FiniteSets, TLC

\* ------------------------------------------------------------------ bounds
MaxRows == 2
MaxFiles == 2
MaxRuns == 2
MaxTrips == 3

\* --------------------------------------------------------------- text cells
\* The float NaN that pandas puts in an object column for a missing cell.
NaN == "NaN"

\* Texts that read_csv takes for a missing value (a subset of its defaults
\* that contains the empty cell).
NaTokens == {"", "NA", NaN}

\* A timestamp cell of a CSV file: empty, unparsable text, or a well-formed
\* date-time text, named by the instant (in seconds) it denotes.
NaCell == [k |-> "na", t |-> 0]
BadCell == [k |-> "bad", t |-> 0]
TsCell(t) == [k |-> "ts", t |-> t]

\* A parsed datetime64 value, and the missing one.
Timestamp(t) == [k |-> "dt", t |-> t]
NaT == [k |-> "nat", t |-> 0]

\* ------------------------------------------------------------ input domains
RideIdCells == {"", "r1"}
StartCells == {NaCell, BadCell, TsCell(0), TsCell(30)}
EndCells == {NaCell, TsCell(0), TsCell(60), TsCell(86430)}
StartStationCells == {"", "NA", "Clark St"}
EndStationCells == {"", "Lake Ave"}
CategoryCells == {"member", "casual", ""}

RawRow(id, s, e, ss, es, mc) ==
    [ride_id |-> id, started_at |-> s, ended_at |-> e,
     start_station_name |-> ss, end_station_name |-> es, member_casual |-> mc]

\* Rows that vary the identifier and the two timestamps.
TimeRows ==
    { RawRow(id, s, e, "Clark St", "Lake Ave", "member") :
        id \in RideIdCells, s \in StartCells, e \in EndCells }

\* Rows that vary the station names and the user category.
FieldRows ==
    { RawRow("r1", TsCell(30), TsCell(86430), ss, es, mc) :
        ss \in StartStationCells, es \in EndStationCells, mc \in CategoryCells }

RawRows == TimeRows \cup FieldRows

\* A smaller pool for directories of several files.
PoolRows ==
    { RawRow("r1", TsCell(0), TsCell(60), "Clark St", "Lake Ave", "member"),
      RawRow("r1", TsCell(30), TsCell(86430), "", "Lake Ave", "casual"),
      RawRow("", BadCell, TsCell(0), "Clark St", "", "member"),
      RawRow("r1", BadCell, TsCell(0), "Clark St", "Lake Ave", "member") }

SeqsUpTo(S, n) == UNION { [1..k -> S] : k \in 0..n }

\* A file of the raw directory: unreadable (read_csv raises), or a table.
Unreadable == [readable |-> FALSE, rows |-> <<>>]
TableFile(rows) == [readable |-> TRUE, rows |-> rows]

\* ------------------------------------------------------------------- paths
\* File names are sequences of character codes.
CsvSuffix == <<46, 99, 115, 118>>
RawDirPrefix == <<100, 97, 116, 97, 47, 114, 97, 119, 47>>

\* "1.csv", "10.csv", "2.csv" and "1.txt"
FileNames ==
    { <<49>> \o CsvSuffix, <<49, 48>> \o CsvSuffix, <<50>> \o CsvSuffix,
      <<49, 46, 116, 120, 116>> }

\* --------------------------------------------------------- record cleaning
\* pd.read_csv on one text cell: the missing-value texts become NaN.
ParseCell(c) == IF c \in NaTokens THEN NaN ELSE c

\* pd.read_csv(current_file_path): the rows in file order, labelled with the
\* default RangeIndex 0, 1, 2, ...
read_csv(file) ==
    [i \in 1..Len(file.rows) |->
        [index |-> i - 1,
         ride_id |-> ParseCell(file.rows[i].ride_id),
         started_at |-> file.rows[i].started_at,
         ended_at |-> file.rows[i].ended_at,
         start_station_name |-> ParseCell(file.rows[i].start_station_name),
         end_station_name |-> ParseCell(file.rows[i].end_station_name),
         member_casual |-> ParseCell(file.rows[i].member_casual)]]

\* Variant: dropna() without the subset, over every column.
AllColumnsPresent(r) ==
    /\ r.ride_id # NaN /\ r.started_at.k # "na" /\ r.ended_at.k # "na"
    /\ r.start_station_name # NaN /\ r.end_station_name # NaN
    /\ r.member_casual # NaN

\* dropna(subset=['ride_id', 'started_at', 'ended_at'])
KeysPresent(r) ==
    r.ride_id # NaN /\ r.started_at.k # "na" /\ r.ended_at.k # "na"

dropna(df) == SelectSeq(df, KeysPresent)

\* pd.to_datetime raises when a remaining cell is not a date-time text.
to_datetime_raises(df) ==
    \E i \in 1..Len(df) : df[i].started_at.k = "bad" \/ df[i].ended_at.k = "bad"

\* pd.to_datetime on one value: a date-time text is parsed, a datetime is
\* kept, a missing cell becomes NaT.
to_datetime(c) ==
    IF c.k = "ts" THEN Timestamp(c.t) ELSE IF c.k = "na" THEN NaT ELSE c

\* pd.to_datetime on both columns, then the duration column
\* (ended_at - started_at).dt.total_seconds() / 60, held in seconds.
with_duration(df) ==
    [i \in 1..Len(df) |->
        [index |-> df[i].index,
         ride_id |-> df[i].ride_id,
         started_at |-> to_datetime(df[i].started_at),
         ended_at |-> to_datetime(df[i].ended_at),
         start_station_name |-> df[i].start_station_name,
         end_station_name |-> df[i].end_station_name,
         member_casual |-> df[i].member_casual,
         trip_duration_minutes |-> df[i].ended_at.t - df[i].started_at.t]]

\* Variant: the lower bound written ">= 0".
DurationNonNegative(r) == r.trip_duration_minutes >= 0

\* temp_dataframe[temp_dataframe['trip_duration_minutes'] > 0]
DurationPositive(r) == r.trip_duration_minutes > 0

\* temp_dataframe[temp_dataframe['trip_duration_minutes'] <= 24*60]
DurationWithinDay(r) == r.trip_duration_minutes <= 24 * 60 * 60

duration_filter(df) == SelectSeq(SelectSeq(df, DurationPositive), DurationWithinDay)

\* .fillna("Unknown") followed by .replace('', "Unknown")
fillna(v) == IF v = NaN THEN "Unknown" ELSE v
replace_empty(v) == IF v = "" THEN "Unknown" ELSE v
\* Variant: the fillna step left out.
standardize_without_fillna(v) == replace_empty(v)

standardize_station(v) == replace_empty(fillna(v))

\* (temp_dataframe['member_casual'] == 'member').astype(int)
membership(v) == IF v = "member" THEN 1 ELSE 0

finish_rows(df) ==
    [i \in 1..Len(df) |->
        [index |-> df[i].index,
         ride_id |-> df[i].ride_id,
         started_at |-> df[i].started_at,
         ended_at |-> df[i].ended_at,
         start_station_name |-> standardize_station(df[i].start_station_name),
         end_station_name |-> standardize_station(df[i].end_station_name),
         member_casual |-> df[i].member_casual,
         trip_duration_minutes |-> df[i].trip_duration_minutes,
         membership_indicator |-> membership(df[i].member_casual)]]

\* Variant: only read_csv is guarded by the try block.
read_raises(file) == ~file.readable

\* The body of the try block for one file: TRUE when an exception is raised.
clean_raises(file) ==
    \/ ~file.readable
    \/ to_datetime_raises(dropna(read_csv(file)))

\* The cleaned table of a file whose try block completes.
clean_file(file) == finish_rows(duration_filter(with_duration(dropna(read_csv(file)))))

\* ------------------------------------------------------- discovery and sort
Min(a, b) == IF a < b THEN a ELSE b

\* file.endswith('.csv')
endswith(name, suffix) ==
    /\ Len(name) >= Len(suffix)
    /\ SubSeq(name, Len(name) - Len(suffix) + 1, Len(name)) = suffix

\* os.path.join('data/raw', file) and its inverse, the name under the
\* directory that open() resolves.
join(name) == RawDirPrefix \o name
basename(path) == SubSeq(path, Len(RawDirPrefix) + 1, Len(path))

\* Python's order on str: code point by code point, a proper prefix first.
LexLess(a, b) ==
    \/ \E i \in 1..Min(Len(a), Len(b)) :
          /\ \A j \in 1..(i - 1) : a[j] = b[j]
          /\ a[i] < b[i]
    \/ /\ Len(a) < Len(b)
       /\ \A j \in 1..Len(a) : a[j] = b[j]

RECURSIVE InsertSorted(_, _)
InsertSorted(x, s) ==
    IF s = <<>> THEN <<x>>
    ELSE IF LexLess(x, Head(s)) THEN <<x>> \o s
    ELSE <<Head(s)>> \o InsertSorted(x, Tail(s))

\* Variant: the list is left in listing order.
sort_omitted(s) == s

\* raw_file_paths.sort()
RECURSIVE sort(_)
sort(s) ==
    IF s = <<>> THEN <<>>
    ELSE InsertSorted(s[Len(s)], sort(SubSeq(s, 1, Len(s) - 1)))

IsCsv(name) == endswith(name, CsvSuffix)

\* The loop over os.listdir('data/raw'): the '.csv' names, joined, in the
\* order the listing returns them.
csv_paths(listing) ==
    LET kept == SelectSeq(listing, IsCsv)
    IN [i \in 1..Len(kept) |-> join(kept[i])]

\* All orders in which os.listdir may return the names of a directory.
Listings(names) ==
    { l \in [1..Cardinality(names) -> names] :
        \A i, j \in 1..Cardinality(names) : i # j => l[i] # l[j] }

\* ------------------------------------------------------ combine and persist
RECURSIVE Flatten(_)
Flatten(tables) ==
    IF tables = <<>> THEN <<>> ELSE Head(tables) \o Flatten(Tail(tables))

\* Relabel the rows 0, 1, 2, ... (ignore_index=True, and the RangeIndex of a
\* table that read_csv returns).
reset_index(df) == [i \in 1..Len(df) |-> [df[i] EXCEPT !.index = i - 1]]

\* Variant: concat followed by drop_duplicates(subset='ride_id').
RECURSIVE drop_duplicates(_)
drop_duplicates(df) ==
    IF df = <<>> THEN <<>>
    ELSE LET front == SubSeq(df, 1, Len(df) - 1)
             last == df[Len(df)]
         IN IF \E i \in 1..Len(front) : front[i].ride_id = last.ride_id
            THEN drop_duplicates(front)
            ELSE Append(drop_duplicates(front), last)

concat_deduplicated(tables) == reset_index(drop_duplicates(Flatten(tables)))

\* pd.concat(processed_dataframes, ignore_index=True)
concat(tables) == reset_index(Flatten(tables))

\* One text cell written by to_csv: NaN is written as the empty cell.
WriteCell(v) == IF v = NaN THEN "" ELSE v

\* One datetime written by to_csv: its date-time text.
WriteTime(v) == IF v.k = "dt" THEN TsCell(v.t) ELSE NaCell

\* divvy_dataset.to_csv(processed_file_path, index=False)
to_csv(df) ==
    [i \in 1..Len(df) |->
        [ride_id |-> WriteCell(df[i].ride_id),
         started_at |-> WriteTime(df[i].started_at),
         ended_at |-> WriteTime(df[i].ended_at),
         start_station_name |-> WriteCell(df[i].start_station_name),
         end_station_name |-> WriteCell(df[i].end_station_name),
         member_casual |-> WriteCell(df[i].member_casual),
         trip_duration_minutes |-> df[i].trip_duration_minutes,
         membership_indicator |-> df[i].membership_indicator]]

\* Variant: the cache read with keep_default_na=False, na_values=[] - an
\* empty cell stays the empty text.
read_cache_keep_text(rows) ==
    [i \in 1..Len(rows) |->
        [index |-> i - 1,
         ride_id |-> rows[i].ride_id,
         started_at |-> rows[i].started_at,
         ended_at |-> rows[i].ended_at,
         start_station_name |-> rows[i].start_station_name,
         end_station_name |-> rows[i].end_station_name,
         member_casual |-> rows[i].member_casual,
         trip_duration_minutes |-> rows[i].trip_duration_minutes,
         membership_indicator |-> rows[i].membership_indicator]]

\* pd.read_csv(processed_file_path)
read_cache(rows) ==
    [i \in 1..Len(rows) |->
        [index |-> i - 1,
         ride_id |-> ParseCell(rows[i].ride_id),
         started_at |-> rows[i].started_at,
         ended_at |-> rows[i].ended_at,
         start_station_name |-> ParseCell(rows[i].start_station_name),
         end_station_name |-> ParseCell(rows[i].end_station_name),
         member_casual |-> ParseCell(rows[i].member_casual),
         trip_duration_minutes |-> rows[i].trip_duration_minutes,
         membership_indicator |-> rows[i].membership_indicator]]

NoCache == [exists |-> FALSE, rows |-> <<>>]
CacheFile(rows) == [exists |-> TRUE, rows |-> rows]

\* Variant: the cache is never seen.
path_exists_never(file) == FALSE

\* os.path.exists(processed_file_path)
path_exists(file) == file.exists

\* Variant: the test "is not None", true of the empty list as well.
has_processed_always(tables) == TRUE

\* "if processed_dataframes:" - a list is true when it is not empty.
has_processed(tables) == tables # <<>>

\* Variant: the dataset is not written.
persist_skipped(df) == NoCache

\* os.makedirs('data/processed', exist_ok=True) and to_csv: the file that is
\* at the cache path afterwards.
persist(df) == CacheFile(to_csv(df))

\* ------------------------------------------------------ feature engineering
\* Instant 0 is Monday 1 January 2024, 00:00:00.
DayNames ==
    <<"Monday", "Tuesday", "Wednesday", "Thursday", "Friday", "Saturday", "Sunday">>

MonthNames ==
    <<"January", "February", "March", "April", "May", "June", "July",
      "August", "September", "October", "November", "December">>

\* Day of the year 2024 on which each month starts.
MonthStarts == <<0, 31, 60, 91, 121, 152, 182, 213, 244, 274, 305, 335>>

\* .dt.hour, .dt.day_name(), .dt.month_name(), .dt.date
hour_of(t) == (t % 86400) \div 3600
day_name(t) == DayNames[((t \div 86400) % 7) + 1]
date_of(t) == t \div 86400
month_name(t) ==
    MonthNames[Cardinality({m \in 1..12 : MonthStarts[m] <= date_of(t) % 366})]

\* Lines 145-154: both timestamp columns parsed, the four temporal columns
\* added; membership_indicator is already a column on both paths.
add_features(df) ==
    [i \in 1..Len(df) |->
        LET s == to_datetime(df[i].started_at)
        IN [index |-> df[i].index,
            ride_id |-> df[i].ride_id,
            started_at |-> s,
            ended_at |-> to_datetime(df[i].ended_at),
            start_station_name |-> df[i].start_station_name,
            end_station_name |-> df[i].end_station_name,
            member_casual |-> df[i].member_casual,
            trip_duration_minutes |-> df[i].trip_duration_minutes,
            membership_indicator |-> df[i].membership_indicator,
            start_hour |-> hour_of(s.t),
            day_of_week |-> day_name(s.t),
            month |-> month_name(s.t),
            date |-> date_of(s.t)]]

StartTimes(df) == { df[i].started_at.t : i \in 1..Len(df) }
SetMax(S) == CHOOSE x \in S : \A y \in S : y <= x
SetMin(S) == CHOOSE x \in S : \A y \in S : x <= y

\* started_at.max() - started_at.min(), in seconds, of a non-empty table.
period_seconds(df) == SetMax(StartTimes(df)) - SetMin(StartTimes(df))

\* --------------------------------------------------------------- aggregates
RECURSIVE GCD(_, _)
GCD(a, b) == IF b = 0 THEN a ELSE GCD(b, a % b)

\* A float quotient of two non-negative integers, held in lowest terms.  The
\* quotient 0/0 is the float NaN (the mean of an empty Series), and NaN is
\* equal to no value.
Ratio(n, d) ==
    IF n = 0 /\ d = 0 THEN [num |-> 0, den |-> 0]
    ELSE [num |-> n \div GCD(n, d), den |-> d \div GCD(n, d)]
IsNaN(q) == q.num = 0 /\ q.den = 0
SameValue(p, q) == p.den # 0 /\ q.den # 0 /\ p.num * q.den = q.num * p.den

Max(a, b) == IF a > b THEN a ELSE b

RECURSIVE Sum(_)
Sum(s) == IF s = <<>> THEN 0 ELSE Head(s) + Sum(Tail(s))

\* df[name] - one column of a table, as a sequence.
column(df, name) == [i \in 1..Len(df) |-> df[i][name]]

\* Series.mean(): NaN on an empty Series, no exception.
mean(s) == Ratio(Sum(s), Len(s))

\* Variant: 'nunique' in place of 'count'.
count_unique(df, name) == Cardinality({ df[i][name] : i \in 1..Len(df) } \ {NaN})

\* The 'count' aggregation: the number of non-missing cells of a column.
count(df, name) == Len(SelectSeq(df, LAMBDA r : r[name] # NaN))

\* Series.nunique(): the number of distinct non-missing values.
nunique(df, name) == Cardinality({ df[i][name] : i \in 1..Len(df) } \ {NaN})

\* The labels in the order groupby (sort=True) puts them: str order for the
\* names, numeric order for the hours.
SortedDayNames ==
    <<"Friday", "Monday", "Saturday", "Sunday", "Thursday", "Tuesday", "Wednesday">>

SortedMonthNames ==
    <<"April", "August", "December", "February", "January", "July", "June",
      "March", "May", "November", "October", "September">>

Hours == [h \in 1..24 |-> h - 1]

\* df.groupby(key).agg({'ride_id': 'count', 'membership_indicator': 'mean',
\* 'trip_duration_minutes': 'mean'}).rename(...).reset_index(): one row for
\* each label that occurs, in groupby's order.  The duration mean is held in
\* seconds.  The export names the count column total_trips.
groupby_agg(df, key, sorted_labels) ==
    LET present == SelectSeq(sorted_labels, LAMBDA l : \E i \in 1..Len(df) : df[i][key] = l)
        group(l) == SelectSeq(df, LAMBDA r : r[key] = l)
    IN [g \in 1..Len(present) |->
           [label |-> present[g],
            total_rides |-> count(group(present[g]), "ride_id"),
            membership_indicator |-> mean(column(group(present[g]), "membership_indicator")),
            trip_duration_minutes |-> mean(column(group(present[g]), "trip_duration_minutes"))]]

\* Variant: the table is left in groupby's order.
sort_values_omitted(rows, categories) == rows

\* pd.Categorical(..., categories=categories, ordered=True) followed by
\* sort_values: the rows in the order of their label's category.
RECURSIVE sort_values(_, _)
sort_values(rows, categories) ==
    IF categories = <<>> THEN <<>>
    ELSE SelectSeq(rows, LAMBDA r : r.label = Head(categories))
         \o sort_values(rows, Tail(categories))

day_order == DayNames
month_order == MonthNames

hourly_data(df) == groupby_agg(df, "start_hour", Hours)
daily_data(df) == sort_values(groupby_agg(df, "day_of_week", SortedDayNames), day_order)
monthly_data(df) == sort_values(groupby_agg(df, "month", SortedMonthNames), month_order)

\* ----------------------------------------------------------------- stations
\* df[df['start_station_name'] != "Unknown"], and the same on the end name.
known_start(df) == SelectSeq(df, LAMBDA r : r.start_station_name # "Unknown")
known_end(df) == SelectSeq(df, LAMBDA r : r.end_station_name # "Unknown")

\* The distinct non-missing values of a Series in the order they first occur.
RECURSIVE first_seen(_)
first_seen(s) ==
    IF s = <<>> THEN <<>>
    ELSE LET front == first_seen(SubSeq(s, 1, Len(s) - 1))
             last == s[Len(s)]
         IN IF last = NaN \/ \E i \in 1..Len(front) : front[i] = last
            THEN front
            ELSE Append(front, last)

\* Rows of a frequency table, largest count first; equal counts stay in the
\* order they had.
RECURSIVE insert_by_count(_, _)
insert_by_count(x, s) ==
    IF s = <<>> THEN <<x>>
    ELSE IF Head(s).total_trips <= x.total_trips THEN <<x>> \o s
    ELSE <<Head(s)>> \o insert_by_count(x, Tail(s))

RECURSIVE sort_descending(_)
sort_descending(rows) ==
    IF rows = <<>> THEN <<>>
    ELSE insert_by_count(Head(rows), sort_descending(Tail(rows)))

\* Series.value_counts(): one row for each distinct value with the number of
\* its occurrences, in non-increasing order of that number.
value_counts(s) ==
    LET values == first_seen(s)
    IN sort_descending([i \in 1..Len(values) |->
           [station_name |-> values[i],
            total_trips |-> Len(SelectSeq(s, LAMBDA v : v = values[i]))]])

head(s, n) == SubSeq(s, 1, Min(n, Len(s)))

\* Lines 506-507 of the analysis script: the two top-10 rankings of the charts.
real_stations_start(df) ==
    head(value_counts(column(known_start(df), "start_station_name")), 10)
real_stations_end(df) ==
    head(value_counts(column(known_end(df), "end_station_name")), 10)

\* Lines 152-154 and 163-165 of the export script: a top-20 ranking with the
\* share of each station in all trips, in percent.
with_percentage(rows, total_trips) ==
    [i \in 1..Len(rows) |->
        [station_name |-> rows[i].station_name,
         total_trips |-> rows[i].total_trips,
         percentage |-> Ratio(rows[i].total_trips * 100, total_trips)]]

start_stations(df) ==
    with_percentage(head(value_counts(column(df, "start_station_name")), 20), Len(df))
end_stations(df) ==
    with_percentage(head(value_counts(column(df, "end_station_name")), 20), Len(df))

\* Variant: the rows with a real start name are counted, not their names.
real_stations_rows(df) == Len(known_start(df))

\* df[df['start_station_name'] != "Unknown"]['start_station_name'].nunique()
real_stations_count(df) == nunique(known_start(df), "start_station_name")

total_stations(df) == nunique(df, "start_station_name")

\* The 'type' and 'count' columns of station_types_data, the same in both
\* scripts (analysis lines 550-558, export lines 174-182).
station_types_data(df) ==
    <<[type |-> "Real Stations", count |-> real_stations_count(df)],
      [type |-> "Unknown Stations", count |-> total_stations(df) - real_stations_count(df)]>>

\* ---------------------------------------------------------------- histogram
\* df[df['trip_duration_minutes'] <= 120]
reasonable_rides(df) == SelectSeq(df, LAMBDA r : r.trip_duration_minutes <= 120 * 60)

Durations(df) == { df[i].trip_duration_minutes : i \in 1..Len(df) }

CeilDiv(a, b) == (a + b - 1) \div b

\* Variant: the first interval is not widened, so that it is open at the
\* minimum.
cut_bin_open(v, mn, mx) ==
    IF mn = mx THEN 25 ELSE CeilDiv(50 * (v - mn), mx - mn)

\* pd.cut(x, bins=50): 50 intervals of equal width over [mn, mx], each closed
\* on the right, the first one widened by 0.1% of the range so that it holds
\* mn.  When mn = mx the range is widened by 0.1% of the value on both sides.
\* The bin (1..50) of the value v.
cut_bin(v, mn, mx) ==
    IF mn = mx THEN 25 ELSE Max(1, CeilDiv(50 * (v - mn), mx - mn))

\* duration_bins.value_counts().sort_index(): the frequency of each interval.
duration_dist(df) ==
    LET x == reasonable_rides(df)
        mn == SetMin(Durations(x))
        mx == SetMax(Durations(x))
    IN [k \in 1..50 |->
           Len(SelectSeq(x, LAMBDA r : cut_bin(r.trip_duration_minutes, mn, mx) = k))]

\* numpy.histogram under ax.hist(x, bins=50): 50 intervals of equal width
\* over [mn, mx], each closed on the left and the last one on both sides;
\* over [mn - 0.5, mx + 0.5] when mn = mx.
hist_bin(v, mn, mx) ==
    IF mn = mx THEN 26 ELSE Min(50, (50 * (v - mn)) \div (mx - mn) + 1)

\* The bar heights of ax.hist; an empty x gives 50 bars of height 0.
hist(df) ==
    LET x == reasonable_rides(df)
    IN [k \in 1..50 |->
           Len(SelectSeq(x, LAMBDA r :
                 hist_bin(r.trip_duration_minutes, SetMin(Durations(x)),
                          SetMax(Durations(x))) = k))]

\* --------------------------------------------------------------------- KPIs
\* An integer divided by a float quotient.
Divide(n, q) == Ratio(n * q.den, q.num)

\* Variant: the upper end of the optimal range left out.
OptimalDurationOpen(r) ==
    r.trip_duration_minutes >= 5 * 60 /\ r.trip_duration_minutes < 60 * 60

\* (trip_duration_minutes >= 5) & (trip_duration_minutes <= 60)
OptimalDuration(r) ==
    r.trip_duration_minutes >= 5 * 60 /\ r.trip_duration_minutes <= 60 * 60

\* Analysis line 188: the span of the start timestamps in days, a float.
analysis_period_days(df) == Ratio(period_seconds(df), 24 * 3600)

\* Analysis line 192: the number of trips of each real start station.
station_utilization_data(df) ==
    column(value_counts(column(known_start(df), "start_station_name")), "total_trips")

\* Lines 182-198 of the analysis script, for a table with a non-zero period.
calculate_kpis(df) ==
    [total_trips |-> Len(df),
     member_user_percentage |-> mean(column(df, "membership_indicator")),
     analysis_period_days |-> analysis_period_days(df),
     daily_trip_efficiency |-> Divide(Len(df), analysis_period_days(df)),
     average_station_efficiency |-> mean(station_utilization_data(df)),
     total_active_stations |-> Len(station_utilization_data(df)),
     optimal_duration_trips |-> Len(SelectSeq(df, OptimalDuration)),
     user_satisfaction_rate |-> Ratio(Len(SelectSeq(df, OptimalDuration)) * 100, Len(df))]

\* Line 189 divides an int by a float: ZeroDivisionError on 0.0.
calculate_kpis_raises(df) == period_seconds(df) = 0

\* Export line 36: Timedelta.days, the whole days of the span.
date_range(df) == period_seconds(df) \div (24 * 3600)

\* Export line 40
real_stations(df) == nunique(known_start(df), "start_station_name")

\* Lines 28-45 of the export script, when no division raises.
kpi_data(df) ==
    [total_trips |-> Len(df),
     member_trips |-> Len(SelectSeq(df, LAMBDA r : r.member_casual = "member")),
     casual_trips |-> Len(SelectSeq(df, LAMBDA r : r.member_casual = "casual")),
     date_range |-> date_range(df),
     daily_efficiency |-> Ratio(Len(df), date_range(df)),
     real_stations |-> real_stations(df),
     station_efficiency |-> Ratio(Len(df), real_stations(df)),
     optimal_trips |-> Len(SelectSeq(df, OptimalDuration)),
     satisfaction_rate |-> Ratio(Len(SelectSeq(df, OptimalDuration)) * 100, Len(df))]

\* Lines 31, 37 and 41 divide an int by an int: ZeroDivisionError on 0.
kpi_data_raises(df) ==
    Len(df) = 0 \/ date_range(df) = 0 \/ real_stations(df) = 0

\* Lines 6-12 of the export script: the cache read, started_at parsed, three
\* temporal columns added; ended_at stays the text that was read.
export_features(rows) ==
    LET table == read_cache(rows)
    IN [i \in 1..Len(table) |->
           LET s == to_datetime(table[i].started_at)
           IN [index |-> table[i].index,
               ride_id |-> table[i].ride_id,
               started_at |-> s,
               ended_at |-> table[i].ended_at,
               start_station_name |-> table[i].start_station_name,
               end_station_name |-> table[i].end_station_name,
               member_casual |-> table[i].member_casual,
               trip_duration_minutes |-> table[i].trip_duration_minutes,
               membership_indicator |-> table[i].membership_indicator,
               start_hour |-> hour_of(s.t),
               day_of_week |-> day_name(s.t),
               month |-> month_name(s.t)]]

\* Export line 208: pd.cut raises ValueError on an empty input.
cut_raises(df) == reasonable_rides(df) = <<>>

\* Variant: hourly_data reindexed over the hours with fill_value=0, so that
\* an hour without trips has a row of count 0.
peak_hour_trips_filled(df, h) ==
    IF \E i \in 1..Len(df) : df[i].start_hour = h
    THEN column(SelectSeq(hourly_data(df), LAMBDA r : r.label = h), "total_rides")
    ELSE <<0>>

\* hourly_data[hourly_data['start_hour'] == h]['total_trips'], the Series
\* that .iloc[0] is applied to.
peak_hour_trips(df, h) ==
    column(SelectSeq(hourly_data(df), LAMBDA r : r.label = h), "total_rides")

\* Lines 220-289: the divisions by the number of real end stations raise
\* ZeroDivisionError, and .iloc[0] raises IndexError on an empty selection.
summary_stats_raises(df) ==
    \/ nunique(known_end(df), "end_station_name") = 0
    \/ peak_hour_trips(df, 8) = <<>>
    \/ peak_hour_trips(df, 18) = <<>>

\* ------------------------------------------------------------------- state
VARIABLES
    raw_dir,               \* data/raw: whether it exists, and name -> file
    cache,                 \* data/processed/divvy_combined_data.csv
    pc,                    \* position of the running script
    raw_file_paths,        \* the sorted list of '.csv' paths
    file_index,            \* number of paths the loop has gone through
    processed_dataframes,  \* the cleaned tables appended so far
    divvy_dataset,         \* the canonical dataset of this run
    exit_status,           \* exit status of the last finished run
    run,                   \* number of the current run
    processed_paths,       \* history: path of each appended table
    failed_paths,          \* history: paths whose try block raised
    listed,                \* history: os.listdir was called in this run
    cache_at_start,        \* history: the cache when the run started
    build_runs,            \* history: runs that appended a cleaned table
    aggregated,            \* history: the KPI step of this run completed
    built,                 \* history: the dataset and figures of the build run
    metrics,               \* the KPIs of this run
    figures,               \* the metrics table and the chart data of this run
    export_df,                    \* export script: its table
    sheets,                \* export script: sheet name -> sheet written
    export_pc,             \* export script: its position
    export_status          \* export script: its exit status

\* The variables of the analysis script and those of the export script.
script_vars ==
    <<raw_dir, cache, pc, raw_file_paths, file_index, processed_dataframes,
      divvy_dataset, exit_status, run, processed_paths, failed_paths, listed,
      cache_at_start, build_runs, aggregated, built, metrics, figures>>

export_vars == <<export_df, sheets, export_pc, export_status>>

vars == <<script_vars, export_vars>>

NoDir == [exists |-> FALSE, files |-> <<>>]
Dir(files) == [exists |-> TRUE, files |-> files]

\* The files over a set of rows: unreadable, or a table of up to MaxRows rows.
FileContents(rows) ==
    { IF readable THEN TableFile(r) ELSE Unreadable :
        readable \in BOOLEAN, r \in SeqsUpTo(rows, MaxRows) }

\* A file that is not a '.csv' file; the pipeline never opens it.
OtherFile ==
    TableFile(<<RawRow("r1", TsCell(0), TsCell(30), "Clark St", "Lake Ave", "member")>>)

RichContents == FileContents(RawRows)
PoolContents == FileContents(PoolRows)

CsvNames == { n \in FileNames : endswith(n, CsvSuffix) }
OtherNames == FileNames \ CsvNames

\* A first run on a fresh checkout: no cache, and one '.csv' file over the
\* full row domain.
FreshInit ==
    /\ \E c \in RichContents : raw_dir = Dir([n \in {<<49>> \o CsvSuffix} |-> c])
    /\ cache = NoCache

\* A cache left by an earlier build, of a file with two admitted rows.
EarlierBuilds ==
    { <<TableFile(<<RawRow("r1", TsCell(0), TsCell(30), "", "Lake Ave", "casual"),
                    RawRow("r1", TsCell(30), TsCell(86430), "Clark St", "", "member")>>)>> }

InitialCaches ==
    {NoCache} \cup
    { CacheFile(to_csv(concat([i \in 1..Len(b) |-> clean_file(b[i])]))) : b \in EarlierBuilds }

\* Any cache, and a raw directory that is missing or holds up to MaxFiles
\* files over the row pool.
BatchInit ==
    /\ \/ raw_dir = NoDir
       \/ \E C \in SUBSET CsvNames, O \in SUBSET OtherNames :
             /\ Cardinality(C \cup O) <= MaxFiles
             /\ \E f \in [C -> PoolContents] :
                   raw_dir = Dir([n \in C \cup O |-> IF n \in C THEN f[n] ELSE OtherFile])
    /\ cache \in InitialCaches

\* Both scripts at their first line.
Start ==
    /\ pc = "check_cache"
    /\ raw_file_paths = <<>>
    /\ file_index = 0
    /\ processed_dataframes = <<>>
    /\ divvy_dataset = <<>>
    /\ exit_status = 0
    /\ run = 1
    /\ processed_paths = <<>>
    /\ failed_paths = <<>>
    /\ listed = FALSE
    /\ cache_at_start = cache
    /\ build_runs = {}
    /\ aggregated = FALSE
    /\ built = [dataset |-> <<>>, figures |-> <<>>]
    /\ metrics = <<>>
    /\ figures = <<>>
    /\ export_df = <<>>
    /\ sheets = <<>>
    /\ export_pc = "idle"
    /\ export_status = 0

Init ==
    /\ FreshInit \/ BatchInit
    /\ Start

\* ------------------------------------------------- a dataset of varied trips
\* A well-formed raw row of ride r1 that starts at instant s and lasts d
\* seconds.
Trip(s, d, ss, es, mc) == RawRow("r1", TsCell(s), TsCell(s + d), ss, es, mc)

\* Starts on Monday 1 January at 00:00 and 08:00, Tuesday 2 January at 18:00,
\* Friday 5 January and Monday 1 April.
TripStarts == {0, 8 * 3600, 86400 + 18 * 3600, 4 * 86400, 91 * 86400}

\* Durations of 4, 5, 10, 60, 70, 120, 121 and 1500 minutes.
TripDurations == {4 * 60, 5 * 60, 10 * 60, 60 * 60, 70 * 60, 120 * 60, 121 * 60, 1500 * 60}

\* Trips of ten minutes that vary the start instant.
TimeTrips == { Trip(s, 10 * 60, "Clark St", "Lake Ave", "member") : s \in TripStarts }

\* Trips that vary the duration, on two days.
DurationTrips ==
    { Trip(0, d, "Clark St", "Lake Ave", "member") : d \in TripDurations }
    \cup { Trip(2 * 86400, d, "Clark St", "Lake Ave", "member") :
             d \in {10 * 60, 70 * 60, 121 * 60} }

\* Trips that vary the station names and the user category, on two days.
StationTrips ==
    { Trip(s, 10 * 60, ss, "Lake Ave", "member") :
        s \in {0, 2 * 86400}, ss \in {"", "Clark St", "State St"} }
    \cup { Trip(0, 10 * 60, "Clark St", "", "member"),
           Trip(0, 10 * 60, "Clark St", "Lake Ave", "casual"),
           Trip(0, 10 * 60, "Clark St", "Lake Ave", "") }

\* An earlier run has built the cache from one raw file of up to MaxTrips
\* trips, and the file is still in data/raw.
ReportInit ==
    /\ \E k \in 0..MaxTrips :
          \E rows \in [1..k -> TimeTrips] \cup [1..k -> DurationTrips]
                      \cup [1..k -> StationTrips] :
             /\ raw_dir = Dir([n \in {<<49>> \o CsvSuffix} |-> TableFile(rows)])
             /\ cache = persist(concat(<<clean_file(TableFile(rows))>>))
    /\ Start

\* ----------------------------------------------------------------- actions
\* Line 72: if not os.path.exists(processed_file_path)
CheckCache ==
    /\ UNCHANGED <<built, metrics, figures, export_vars>>
    /\ pc = "check_cache"
    /\ pc' = IF ~path_exists(cache) THEN "list_raw" ELSE "load_cache"
    /\ UNCHANGED <<raw_dir, cache, raw_file_paths, file_index, processed_dataframes,
                   divvy_dataset, exit_status, run, processed_paths, failed_paths,
                   listed, cache_at_start, build_runs, aggregated>>

\* Lines 75-85: list data/raw, keep the '.csv' names, sort the paths.
\* os.listdir raises FileNotFoundError when the directory is missing.
ListRawFiles ==
    /\ UNCHANGED <<built, metrics, figures, export_vars>>
    /\ pc = "list_raw"
    /\ listed' = TRUE
    /\ IF raw_dir.exists
       THEN \E listing \in Listings(DOMAIN raw_dir.files) :
               /\ raw_file_paths' = sort(csv_paths(listing))
               /\ pc' = "process_files"
               /\ UNCHANGED exit_status
       ELSE /\ pc' = "crashed"
            /\ exit_status' = 1
            /\ UNCHANGED raw_file_paths
    /\ file_index' = 0
    /\ processed_dataframes' = <<>>
    /\ UNCHANGED <<raw_dir, cache, divvy_dataset, run, processed_paths, failed_paths,
                   cache_at_start, build_runs, aggregated>>

\* Lines 88-121: one iteration of the loop, try block and except clause.
ProcessFile ==
    /\ UNCHANGED <<built, metrics, figures, export_vars>>
    /\ pc = "process_files"
    /\ file_index < Len(raw_file_paths)
    /\ LET current_file_path == raw_file_paths[file_index + 1]
           file == raw_dir.files[basename(current_file_path)]
       IN IF clean_raises(file)
          THEN /\ failed_paths' = Append(failed_paths, current_file_path)
               /\ UNCHANGED <<processed_dataframes, processed_paths, build_runs>>
          ELSE /\ processed_dataframes' = Append(processed_dataframes, clean_file(file))
               /\ processed_paths' = Append(processed_paths, current_file_path)
               /\ build_runs' = build_runs \cup {run}
               /\ UNCHANGED failed_paths
    /\ file_index' = file_index + 1
    /\ UNCHANGED <<raw_dir, cache, pc, raw_file_paths, divvy_dataset, exit_status, run,
                   listed, cache_at_start, aggregated>>

\* Lines 123-134: combine and persist, or exit(1) when nothing was processed.
Combine ==
    /\ UNCHANGED <<built, metrics, figures, export_vars>>
    /\ pc = "process_files"
    /\ file_index = Len(raw_file_paths)
    /\ IF has_processed(processed_dataframes)
       THEN /\ divvy_dataset' = concat(processed_dataframes)
            /\ cache' = persist(concat(processed_dataframes))
            /\ pc' = "features"
            /\ UNCHANGED exit_status
       ELSE /\ pc' = "exited"
            /\ exit_status' = 1
            /\ UNCHANGED <<divvy_dataset, cache>>
    /\ UNCHANGED <<raw_dir, raw_file_paths, file_index, processed_dataframes, run,
                   processed_paths, failed_paths, listed, cache_at_start, build_runs,
                   aggregated>>

\* Lines 136-138: load the existing processed dataset.
LoadCache ==
    /\ UNCHANGED <<built, metrics, figures, export_vars>>
    /\ pc = "load_cache"
    /\ divvy_dataset' = read_cache(cache.rows)
    /\ pc' = "features"
    /\ UNCHANGED <<raw_dir, cache, raw_file_paths, file_index, processed_dataframes,
                   exit_status, run, processed_paths, failed_paths, listed,
                   cache_at_start, build_runs, aggregated>>

\* Lines 144-154: temporal features.
FeatureEngineering ==
    /\ UNCHANGED <<metrics, figures, export_vars>>
    /\ pc = "features"
    /\ divvy_dataset' = add_features(divvy_dataset)
    /\ built' = IF path_exists(cache_at_start) THEN built
                ELSE [built EXCEPT !.dataset = add_features(divvy_dataset)]
    /\ pc' = "summary"
    /\ UNCHANGED <<raw_dir, cache, raw_file_paths, file_index, processed_dataframes,
                   exit_status, run, processed_paths, failed_paths, listed,
                   cache_at_start, build_runs, aggregated>>

\* Lines 160-173: the dataset summary.  On an empty dataset started_at.min()
\* is NaT and NaT.strftime raises ValueError.
Summary ==
    /\ UNCHANGED <<built, metrics, figures, export_vars>>
    /\ pc = "summary"
    /\ IF divvy_dataset = <<>>
       THEN pc' = "crashed" /\ exit_status' = 1
       ELSE pc' = "kpi" /\ UNCHANGED exit_status
    /\ UNCHANGED <<raw_dir, cache, raw_file_paths, file_index, processed_dataframes,
                   divvy_dataset, run, processed_paths, failed_paths, listed,
                   cache_at_start, build_runs, aggregated>>

\* Lines 182-198: the KPIs.  total_trips / analysis_period_days divides an int
\* by a float and raises ZeroDivisionError when the period is 0.0.
CalculateKPIs ==
    /\ pc = "kpi"
    /\ IF calculate_kpis_raises(divvy_dataset)
       THEN /\ pc' = "crashed" /\ exit_status' = 1
            /\ UNCHANGED <<aggregated, metrics>>
       ELSE /\ pc' = "charts" /\ aggregated' = TRUE
            /\ metrics' = calculate_kpis(divvy_dataset)
            /\ UNCHANGED exit_status
    /\ UNCHANGED <<built, figures, export_vars>>
    /\ UNCHANGED <<raw_dir, cache, raw_file_paths, file_index, processed_dataframes,
                   divvy_dataset, run, processed_paths, failed_paths, listed,
                   cache_at_start>>
    /\ UNCHANGED build_runs

\* The metrics table printed at line 235 and the data of the charts drawn
\* at lines 338-347, 372-382, 506-507, 550-558 and 607-610.
create_charts(table, kpis) ==
    [system_metrics_data |-> kpis,
     daily_data |-> daily_data(table),
     monthly_data |-> monthly_data(table),
     real_stations_start |-> real_stations_start(table),
     real_stations_end |-> real_stations_end(table),
     station_types_data |-> station_types_data(table),
     duration_distribution |-> hist(table)]

\* Lines 200-663: the metrics table and the charts, to the end of the script.
CreateCharts ==
    /\ pc = "charts"
    /\ pc' = "done"
    /\ exit_status' = 0
    /\ figures' = create_charts(divvy_dataset, metrics)
    /\ built' = IF path_exists(cache_at_start) THEN built
                ELSE [built EXCEPT !.figures = create_charts(divvy_dataset, metrics)]
    /\ UNCHANGED <<metrics, export_vars>>
    /\ UNCHANGED <<raw_dir, cache, raw_file_paths, file_index, processed_dataframes,
                   divvy_dataset, run, processed_paths, failed_paths, listed,
                   cache_at_start, build_runs, aggregated>>

Finished == pc \in {"done", "exited", "crashed"}

\* The script is started again on the same directories.
StartRun ==
    /\ Finished
    /\ run < MaxRuns
    /\ run' = run + 1
    /\ pc' = "check_cache"
    /\ raw_file_paths' = <<>>
    /\ file_index' = 0
    /\ processed_dataframes' = <<>>
    /\ divvy_dataset' = <<>>
    /\ processed_paths' = <<>>
    /\ failed_paths' = <<>>
    /\ listed' = FALSE
    /\ aggregated' = FALSE
    /\ metrics' = <<>>
    /\ figures' = <<>>
    /\ cache_at_start' = cache
    /\ UNCHANGED <<built, export_vars>>
    /\ UNCHANGED <<raw_dir, cache, exit_status, build_runs>>

Next ==
    \/ CheckCache
    \/ ListRawFiles
    \/ ProcessFile
    \/ Combine
    \/ LoadCache
    \/ FeatureEngineering
    \/ Summary
    \/ CalculateKPIs
    \/ CreateCharts
    \/ StartRun

Spec == Init /\ [][Next]_vars

\* ------------------------------------------------------- the export script
\* Lines 6-12 of divvy_bike_export_excel.py, run once the analysis script
\* has ended.  read_csv raises FileNotFoundError when there is no cache.
ExportLoad ==
    /\ export_pc = "idle"
    /\ Finished
    /\ IF path_exists(cache)
       THEN /\ export_df' = export_features(cache.rows)
            /\ export_pc' = "kpi"
            /\ UNCHANGED export_status
       ELSE /\ export_pc' = "crashed"
            /\ export_status' = 1
            /\ UNCHANGED export_df
    /\ UNCHANGED sheets
    /\ UNCHANGED script_vars

\* Lines 28-55: the KPIs and the KPI_Dashboard sheet.
ExportKPIs ==
    /\ export_pc = "kpi"
    /\ IF kpi_data_raises(export_df)
       THEN /\ export_pc' = "crashed"
            /\ export_status' = 1
            /\ UNCHANGED sheets
       ELSE /\ sheets' = sheets @@ ("KPI_Dashboard" :> kpi_data(export_df))
            /\ export_pc' = "sheets"
            /\ UNCHANGED export_status
    /\ UNCHANGED export_df
    /\ UNCHANGED script_vars

\* Lines 57-213: the sheets of the aggregates.  The sheets written before
\* pd.cut raises stay in the workbook.
ExportSheets ==
    /\ export_pc = "sheets"
    /\ LET written ==
               sheets @@ ("Hourly_Analysis" :> hourly_data(export_df))
                      @@ ("Daily_Analysis" :> daily_data(export_df))
                      @@ ("Monthly_Analysis" :> monthly_data(export_df))
                      @@ ("Top_Start_Stations" :> start_stations(export_df))
                      @@ ("Top_End_Stations" :> end_stations(export_df))
                      @@ ("Station_Types" :> station_types_data(export_df))
       IN IF cut_raises(export_df)
          THEN /\ sheets' = written
               /\ export_pc' = "crashed"
               /\ export_status' = 1
          ELSE /\ sheets' = written @@ ("Duration_Distribution" :> duration_dist(export_df))
               /\ export_pc' = "summary"
               /\ UNCHANGED export_status
    /\ UNCHANGED export_df
    /\ UNCHANGED script_vars

\* Lines 215-305: the Summary_Statistics sheet and the end of the script.
ExportSummary ==
    /\ export_pc = "summary"
    /\ IF summary_stats_raises(export_df)
       THEN /\ export_pc' = "crashed"
            /\ export_status' = 1
            /\ UNCHANGED sheets
       ELSE /\ sheets' = sheets @@ ("Summary_Statistics" :>
                            [peak_hour_8 |-> peak_hour_trips(export_df, 8)[1],
                             peak_hour_18 |-> peak_hour_trips(export_df, 18)[1]])
            /\ export_pc' = "done"
            /\ export_status' = 0
    /\ UNCHANGED export_df
    /\ UNCHANGED script_vars

\* One run of the analysis script on the cache, then one run of the export
\* script.
ReportNext ==
    \/ CheckCache
    \/ LoadCache
    \/ FeatureEngineering
    \/ Summary
    \/ CalculateKPIs
    \/ CreateCharts
    \/ ExportLoad
    \/ ExportKPIs
    \/ ExportSheets
    \/ ExportSummary

ReportSpec == ReportInit /\ [][ReportNext]_vars

\* ================================================================ properties
BuildRun == ~cache_at_start.exists

\* The file behind a path of raw_file_paths.
FileAt(path) == raw_dir.files[basename(path)]

\* A raw text cell that holds no value.
MissingText(c) == c \in {"", "NA", "NaN"}

\* Both timestamps of a raw row are date-time texts.
Timed(row) == row.started_at.k = "ts" /\ row.ended_at.k = "ts"

\* end - start of a raw row, in seconds.
RawSeconds(row) == row.ended_at.t - row.started_at.t

DayInSeconds == 1440 * 60

\* The rule of admission: identifier and both timestamps present, and a
\* duration in (0, 1440] minutes.
Admitted(row) ==
    /\ ~MissingText(row.ride_id)
    /\ Timed(row)
    /\ 0 < RawSeconds(row)
    /\ RawSeconds(row) <= DayInSeconds

\* The raw rows of the k-th appended table's file.
SourceRows(k) == FileAt(processed_paths[k]).rows

\* The index labels of the k-th appended table.
Labels(k) ==
    { processed_dataframes[k][j].index : j \in 1..Len(processed_dataframes[k]) }

\* C1: on the build path every record of the dataset has a duration d with
\* 0 < d <= 1440 minutes, and a raw record with both timestamps whose
\* duration is <= 0 or > 1440 minutes has no row in its file's cleaned table.
C1_DurationInRange ==
    BuildRun =>
      /\ \A i \in 1..Len(divvy_dataset) :
            /\ 0 < divvy_dataset[i].trip_duration_minutes
            /\ divvy_dataset[i].trip_duration_minutes <= DayInSeconds
      /\ \A k \in 1..Len(processed_dataframes) :
            \A i \in 1..Len(SourceRows(k)) :
               ( /\ Timed(SourceRows(k)[i])
                 /\ \/ RawSeconds(SourceRows(k)[i]) <= 0
                    \/ RawSeconds(SourceRows(k)[i]) > DayInSeconds )
               => (i - 1) \notin Labels(k)

C1_Witness ==
    /\ BuildRun
    /\ pc = "features"
    /\ \E i \in 1..Len(divvy_dataset) :
          divvy_dataset[i].trip_duration_minutes = DayInSeconds
    /\ \E k \in 1..Len(processed_dataframes) :
          \E i \in 1..Len(SourceRows(k)) :
             /\ ~MissingText(SourceRows(k)[i].ride_id)
             /\ Timed(SourceRows(k)[i])
             /\ RawSeconds(SourceRows(k)[i]) > DayInSeconds

\* The station name a raw cell must become.
ExpectedStation(c) == IF MissingText(c) THEN "Unknown" ELSE c

\* C2: the station names of the dataset are never null and never empty; each
\* cleaned row carries "Unknown" where its raw cell is missing or empty and
\* the raw name otherwise.
C2_StationNames ==
    /\ \A i \in 1..Len(divvy_dataset) :
          /\ divvy_dataset[i].start_station_name \notin {NaN, ""}
          /\ divvy_dataset[i].end_station_name \notin {NaN, ""}
    /\ \A k \in 1..Len(processed_dataframes) :
          \A j \in 1..Len(processed_dataframes[k]) :
             LET r == processed_dataframes[k][j]
                 raw == SourceRows(k)[r.index + 1]
             IN /\ r.start_station_name = ExpectedStation(raw.start_station_name)
                /\ r.end_station_name = ExpectedStation(raw.end_station_name)

C2_Witness ==
    /\ pc = "features"
    /\ BuildRun
    /\ \E i, j \in 1..Len(divvy_dataset) :
          /\ divvy_dataset[i].start_station_name = "Unknown"
          /\ divvy_dataset[j].start_station_name = "Clark St"
    /\ \E k \in 1..Len(processed_dataframes) :
          \E i \in 1..Len(SourceRows(k)) :
             Admitted(SourceRows(k)[i]) /\ SourceRows(k)[i].start_station_name = ""

\* C3: in a file cleaned without error a row is in the cleaned table exactly
\* when it is admitted by the rule above, whatever its station names and user
\* category, and the rows of the table are in the order of the file.
C3_AdmittedIff ==
    \A k \in 1..Len(processed_dataframes) :
       /\ Labels(k) = { i - 1 : i \in { n \in 1..Len(SourceRows(k)) : Admitted(SourceRows(k)[n]) } }
       /\ \A a, b \in 1..Len(processed_dataframes[k]) :
             a < b => processed_dataframes[k][a].index < processed_dataframes[k][b].index

C3_Witness ==
    \E k \in 1..Len(processed_dataframes) :
       /\ Len(processed_dataframes[k]) = 1
       /\ Len(SourceRows(k)) = 2
       /\ \E i \in 1..Len(SourceRows(k)) :
             /\ Admitted(SourceRows(k)[i])
             /\ MissingText(SourceRows(k)[i].start_station_name)
             /\ MissingText(SourceRows(k)[i].member_casual)

\* C4: every record of the dataset has the user category member or casual,
\* and its membership indicator is 1 exactly when the category is member.
C4_CategoryBinary ==
    \A i \in 1..Len(divvy_dataset) :
       /\ divvy_dataset[i].member_casual \in {"member", "casual"}
       /\ divvy_dataset[i].membership_indicator =
             (IF divvy_dataset[i].member_casual = "member" THEN 1 ELSE 0)

\* ---------------------------------------------------------------- the batch
\* The try block of a file raises: read_csv fails, or a row that survives
\* dropna has a timestamp that is not a date-time text.
FileFails(file) ==
    \/ ~file.readable
    \/ \E i \in 1..Len(file.rows) :
          /\ ~MissingText(file.rows[i].ride_id)
          /\ file.rows[i].started_at.k # "na"
          /\ file.rows[i].ended_at.k # "na"
          /\ file.rows[i].started_at.k = "bad" \/ file.rows[i].ended_at.k = "bad"

Fails(path) == FileFails(FileAt(path))
Completes(path) == ~Fails(path)

\* The columns of a row, without its index label.
Columns(r) ==
    [ride_id |-> r.ride_id, started_at |-> r.started_at, ended_at |-> r.ended_at,
     start_station_name |-> r.start_station_name,
     end_station_name |-> r.end_station_name,
     member_casual |-> r.member_casual,
     trip_duration_minutes |-> r.trip_duration_minutes,
     membership_indicator |-> r.membership_indicator]

Unlabelled(df) == [i \in 1..Len(df) |-> Columns(df[i])]

\* The cleaned tables of the completing files among paths, end to end.
RECURSIVE CleanedRows(_)
CleanedRows(paths) ==
    IF paths = <<>> THEN <<>>
    ELSE (IF Completes(Head(paths))
          THEN Unlabelled(clean_file(FileAt(Head(paths)))) ELSE <<>>)
         \o CleanedRows(Tail(paths))

Visited == SubSeq(raw_file_paths, 1, file_index)

\* C5: a file whose try block raises is skipped and the loop goes on: the
\* files gone through split into the completed and the failed ones, the loop
\* ends only after the last path, and the combined dataset is made of the
\* cleaned rows of the completed files and of nothing else.
C5_BadFileSkipped ==
    (BuildRun /\ listed /\ raw_dir.exists) =>
      /\ processed_paths = SelectSeq(Visited, Completes)
      /\ failed_paths = SelectSeq(Visited, Fails)
      /\ pc \notin {"check_cache", "list_raw", "process_files"} =>
            file_index = Len(raw_file_paths)
      /\ pc = "features" =>
            Unlabelled(divvy_dataset) = CleanedRows(raw_file_paths)

C5_Witness ==
    /\ BuildRun
    /\ pc = "features"
    /\ Len(raw_file_paths) = 2
    /\ failed_paths = <<raw_file_paths[1]>>
    /\ processed_paths = <<raw_file_paths[2]>>
    /\ FileAt(raw_file_paths[1]).readable
    /\ Len(divvy_dataset) > 0

\* C6: a run that starts without a cache and processes no file successfully
\* ends with a non-zero exit status, leaves no cache file and computes no
\* aggregate.
C6_NoDataIsFatal ==
    ( /\ BuildRun
      /\ processed_paths = <<>>
      /\ pc \notin {"check_cache", "list_raw", "process_files"} )
    => /\ pc \in {"exited", "crashed"}
       /\ exit_status # 0
       /\ ~cache.exists
       /\ ~aggregated
       /\ divvy_dataset = <<>>

C6_Witness ==
    /\ BuildRun
    /\ pc = "exited"
    /\ Len(failed_paths) = 2
    /\ exit_status = 1

\* C7: a run that starts with the cache file present lists, reads and cleans
\* no raw file, leaves the cache file as it was, and does not take the
\* no-data exit.
C7_CacheFirst ==
    cache_at_start.exists =>
      /\ ~listed
      /\ raw_file_paths = <<>>
      /\ processed_paths = <<>>
      /\ failed_paths = <<>>
      /\ processed_dataframes = <<>>
      /\ cache = cache_at_start
      /\ pc \notin {"list_raw", "process_files", "exited"}
      /\ pc \notin {"check_cache", "load_cache"} =>
            Len(divvy_dataset) = Len(cache.rows)

C7_Witness ==
    /\ cache_at_start.exists
    /\ run = 1
    /\ pc = "done"
    /\ raw_dir.exists
    /\ \E n \in DOMAIN raw_dir.files : IsCsv(n) /\ FileFails(raw_dir.files[n])

AfterCombine == pc \in {"features", "summary", "kpi", "charts", "done"}

\* C8: once the build path has combined a dataset the cache file holds it,
\* before any aggregate is computed; at most one run of a sequence cleans raw
\* files successfully, and every run after it loads the cache.
C8_CleanOnce ==
    /\ AfterCombine => cache.exists
    /\ (BuildRun /\ pc = "features") =>
          /\ ~aggregated
          /\ cache = CacheFile(to_csv(divvy_dataset))
    /\ Cardinality(build_runs) <= 1
    /\ \A b \in build_runs :
          run > b => /\ cache_at_start.exists
                     /\ ~listed
                     /\ pc \notin {"list_raw", "process_files"}

C8_Witness ==
    /\ run = 2
    /\ build_runs = {1}
    /\ pc = "done"
    /\ aggregated

\* The paths of a set in Python's order on str.
RECURSIVE SortedPaths(_)
SortedPaths(S) ==
    IF S = {} THEN <<>>
    ELSE LET m == CHOOSE x \in S : \A y \in S \ {x} : LexLess(x, y)
         IN <<m>> \o SortedPaths(S \ {m})

CsvPathSet == { join(n) : n \in { f \in DOMAIN raw_dir.files : IsCsv(f) } }

\* C9: with the cache absent the paths are gone through in sorted order
\* whatever the order of the directory listing, and the combined dataset is
\* the cleaned tables of the completed files end to end in that order, each
\* in its own row order: a function of the set of files alone.
C9_SortedOrder ==
    (BuildRun /\ listed /\ raw_dir.exists) =>
      /\ raw_file_paths = SortedPaths(CsvPathSet)
      /\ pc = "features" =>
            /\ Unlabelled(divvy_dataset) = CleanedRows(SortedPaths(CsvPathSet))
            /\ \A i \in 1..Len(divvy_dataset) : divvy_dataset[i].index = i - 1

C9_Witness ==
    /\ BuildRun
    /\ pc = "features"
    /\ processed_paths = <<join(<<49, 48>> \o CsvSuffix), join(<<50>> \o CsvSuffix)>>
    /\ Len(processed_dataframes[1]) = 2
    /\ Len(processed_dataframes[2]) = 1
    /\ Columns(processed_dataframes[1][1]) # Columns(processed_dataframes[1][2])
    /\ Columns(processed_dataframes[1][1]) # Columns(processed_dataframes[2][1])

AdmittedCount(file) == Cardinality({ i \in 1..Len(file.rows) : Admitted(file.rows[i]) })

RECURSIVE SumAdmitted(_)
SumAdmitted(paths) ==
    IF paths = <<>> THEN 0
    ELSE AdmittedCount(FileAt(Head(paths))) + SumAdmitted(Tail(paths))

\* C10: the dataset has as many rows as the successfully processed files have
\* admitted rows together; rows with the same identifier are all kept.
C10_RowCount ==
    (BuildRun /\ pc = "features") =>
       Len(divvy_dataset) = SumAdmitted(processed_paths)

C10_Witness ==
    /\ BuildRun
    /\ pc = "features"
    /\ Len(processed_paths) = 2
    /\ Len(processed_dataframes[1]) >= 1
    /\ Len(processed_dataframes[2]) >= 1
    /\ Len(divvy_dataset) >= 2
    /\ \E i, j \in 1..Len(divvy_dataset) :
          i # j /\ divvy_dataset[i].ride_id = divvy_dataset[j].ride_id

\* ------------------------------------------------- the report of both scripts
\* The analysis script has drawn its charts.
ChartsDrawn == pc = "done"

\* The export script has written the named sheet.
Written(sheet) == sheet \in DOMAIN sheets

Labels_of(rows) == { rows[i].label : i \in 1..Len(rows) }

\* C11: the trip counts of the day-of-week aggregate, of the chart and of the
\* Daily_Analysis sheet, add up to the number of records of the dataset.
C11_DayCountsSum ==
    /\ ChartsDrawn =>
          /\ Sum(column(figures.daily_data, "total_rides")) = Len(divvy_dataset)
          /\ Len(divvy_dataset) = Len(cache.rows)
    /\ Written("Daily_Analysis") =>
          /\ Sum(column(sheets.Daily_Analysis, "total_rides")) = Len(export_df)
          /\ Len(export_df) = Len(cache.rows)

\* Three records on two days of the week, in the chart and in the sheet.
C11_Witness ==
    /\ ChartsDrawn /\ Written("Daily_Analysis")
    /\ Len(cache.rows) = 3
    /\ Len(figures.daily_data) = 2
    /\ Len(sheets.Daily_Analysis) = 2

Position(s, x) == CHOOSE i \in 1..Len(s) : s[i] = x

\* The rows carry each label once, in the order of the category list.
InCategoryOrder(rows, categories) ==
    \A i, j \in 1..Len(rows) :
        i < j => Position(categories, rows[i].label) < Position(categories, rows[j].label)

\* C12: the rows of the day-of-week aggregate are the observed days in the
\* order Monday..Sunday and those of the month aggregate the observed months
\* in the order January..December, in the charts and in the sheets.
C12_CalendarOrder ==
    /\ ChartsDrawn =>
          /\ InCategoryOrder(figures.daily_data, DayNames)
          /\ Labels_of(figures.daily_data)
                = { divvy_dataset[i].day_of_week : i \in 1..Len(divvy_dataset) }
          /\ InCategoryOrder(figures.monthly_data, MonthNames)
          /\ Labels_of(figures.monthly_data)
                = { divvy_dataset[i].month : i \in 1..Len(divvy_dataset) }
    /\ Written("Monthly_Analysis") =>
          /\ InCategoryOrder(sheets.Daily_Analysis, DayNames)
          /\ Labels_of(sheets.Daily_Analysis)
                = { export_df[i].day_of_week : i \in 1..Len(export_df) }
          /\ InCategoryOrder(sheets.Monthly_Analysis, MonthNames)
          /\ Labels_of(sheets.Monthly_Analysis)
                = { export_df[i].month : i \in 1..Len(export_df) }

\* A Friday record comes before a Monday record and an April record before a
\* January record in the dataset; the aggregates list Monday and January first.
C12_Witness ==
    /\ ChartsDrawn /\ Written("Monthly_Analysis")
    /\ divvy_dataset[1].day_of_week = "Friday"
    /\ divvy_dataset[2].month = "April"
    /\ column(figures.daily_data, "label") = <<"Monday", "Friday">>
    /\ column(sheets.Daily_Analysis, "label") = <<"Monday", "Friday">>
    /\ column(figures.monthly_data, "label") = <<"January", "April">>
    /\ column(sheets.Monthly_Analysis, "label") = <<"January", "April">>

\* The records of at most 120 minutes.
UpToTwoHours(table) == SelectSeq(table, LAMBDA r : r.trip_duration_minutes <= 120 * 60)

\* C13: the 50 frequencies of the duration histogram, of the chart and of the
\* Duration_Distribution sheet, add up to the number of records of at most
\* 120 minutes; each such record, the shortest and the longest included, falls
\* in one of the 50 bins, and no longer record is counted.
C13_HistogramTotal ==
    /\ ChartsDrawn =>
          /\ Len(figures.duration_distribution) = 50
          /\ Sum(figures.duration_distribution) = Len(UpToTwoHours(divvy_dataset))
          /\ \A i \in 1..Len(UpToTwoHours(divvy_dataset)) :
                hist_bin(UpToTwoHours(divvy_dataset)[i].trip_duration_minutes,
                         SetMin(Durations(UpToTwoHours(divvy_dataset))),
                         SetMax(Durations(UpToTwoHours(divvy_dataset)))) \in 1..50
    /\ Written("Duration_Distribution") =>
          /\ Len(sheets.Duration_Distribution) = 50
          /\ Sum(sheets.Duration_Distribution) = Len(UpToTwoHours(export_df))
          /\ \A i \in 1..Len(UpToTwoHours(export_df)) :
                cut_bin(UpToTwoHours(export_df)[i].trip_duration_minutes,
                        SetMin(Durations(UpToTwoHours(export_df))),
                        SetMax(Durations(UpToTwoHours(export_df)))) \in 1..50

\* Records of 5, 120 and 121 minutes: the first bin and the last bin hold one
\* record each and the third record is in no bin.
C13_Witness ==
    /\ ChartsDrawn /\ Written("Duration_Distribution")
    /\ Durations(export_df) = {5 * 60, 120 * 60, 121 * 60}
    /\ sheets.Duration_Distribution[1] = 1 /\ sheets.Duration_Distribution[50] = 1
    /\ figures.duration_distribution[1] = 1 /\ figures.duration_distribution[50] = 1
    /\ Sum(sheets.Duration_Distribution) = 2

\* The number of records of 5 to 60 minutes, both ends included.
InOptimalRange(table) ==
    Cardinality({ i \in 1..Len(table) :
        /\ table[i].trip_duration_minutes >= 5 * 60
        /\ table[i].trip_duration_minutes <= 60 * 60 })

\* The raw file the cache was built from, and the durations of its rows.
RawTrips == raw_dir.files[<<49>> \o CsvSuffix].rows
RawDurations == { RawSeconds(RawTrips[i]) : i \in 1..Len(RawTrips) }

\* Raw records of 10, 70 and 1500 minutes.
TenSeventyFifteenHundred ==
    Len(RawTrips) = 3 /\ RawDurations = {10 * 60, 70 * 60, 1500 * 60}

\* C14: the satisfaction rate of both scripts is 100 * (records of 5 to 60
\* minutes, ends included) / (all records); raw records of 10, 70 and 1500
\* minutes give a dataset of 2 records and a rate of 50.
C14_SatisfactionRate ==
    /\ ChartsDrawn =>
          /\ SameValue(figures.system_metrics_data.user_satisfaction_rate,
                       Ratio(100 * InOptimalRange(divvy_dataset), Len(divvy_dataset)))
          /\ TenSeventyFifteenHundred =>
                SameValue(figures.system_metrics_data.user_satisfaction_rate, Ratio(50, 1))
    /\ Written("KPI_Dashboard") =>
          /\ SameValue(sheets.KPI_Dashboard.satisfaction_rate,
                       Ratio(100 * InOptimalRange(export_df), Len(export_df)))
          /\ TenSeventyFifteenHundred =>
                SameValue(sheets.KPI_Dashboard.satisfaction_rate, Ratio(50, 1))
    /\ TenSeventyFifteenHundred => Len(cache.rows) = 2

\* The three raw records, after both scripts have computed the rate: one of
\* the two records of the dataset is optimal.
C14_Witness ==
    /\ ChartsDrawn /\ Written("KPI_Dashboard")
    /\ TenSeventyFifteenHundred
    /\ sheets.KPI_Dashboard.optimal_trips = 1
    /\ figures.system_metrics_data.optimal_duration_trips = 1

\* The start station names of a table, and of the admitted raw rows.
StartNames(table) == { table[i].start_station_name : i \in 1..Len(table) }
RawStartNames ==
    { RawTrips[i].start_station_name : i \in { j \in 1..Len(RawTrips) : Admitted(RawTrips[j]) } }

\* The two counts a station-type table must show for a table of records.
StationTypeCounts(types, table) ==
    /\ types[1].type = "Real Stations"
    /\ types[1].count = Cardinality(StartNames(table) \ {"Unknown"})
    /\ types[2].type = "Unknown Stations"
    /\ types[2].count = (IF "Unknown" \in StartNames(table) THEN 1 ELSE 0)
    /\ types[1].count + types[2].count = Cardinality(StartNames(table))
    /\ types[1].count = Cardinality({ n \in RawStartNames : ~MissingText(n) })
    /\ types[2].count = (IF \E n \in RawStartNames : MissingText(n) THEN 1 ELSE 0)

\* C15: in the station-type aggregate of the chart and of the Station_Types
\* sheet, "Real Stations" is the number of distinct start names other than
\* "Unknown", "Unknown Stations" is 1 when a record has the start name
\* "Unknown" and 0 otherwise, the two add up to the number of distinct start
\* names, and a record whose raw start name was missing counts under
\* "Unknown Stations" only.
C15_StationTypes ==
    /\ ChartsDrawn => StationTypeCounts(figures.station_types_data, divvy_dataset)
    /\ Written("Station_Types") => StationTypeCounts(sheets.Station_Types, export_df)

\* Two records of one real station and one record without a start name:
\* one real station, one unknown station.
C15_Witness ==
    /\ ChartsDrawn /\ Written("Station_Types")
    /\ Len(export_df) = 3
    /\ RawStartNames = {"Clark St", ""}
    /\ sheets.Station_Types[1].count = 1 /\ sheets.Station_Types[2].count = 1
    /\ figures.station_types_data[1].count = 1 /\ figures.station_types_data[2].count = 1

\* A ranking without the name "Unknown", largest count first.
RealRanking(rows) ==
    /\ \A i \in 1..Len(rows) : rows[i].station_name # "Unknown"
    /\ \A i, j \in 1..Len(rows) : i < j => rows[i].total_trips >= rows[j].total_trips

\* The percentage column is count / total trips, in percent.
ShareOfAllTrips(rows, table) ==
    \A i \in 1..Len(rows) :
        SameValue(rows[i].percentage, Ratio(100 * rows[i].total_trips, Len(table)))

\* C16: each ranking of stations - the top 10 of the two charts, the top 20
\* of the Top_Start_Stations and Top_End_Stations sheets - never lists
\* "Unknown", is in non-increasing order of count, and gives as percentage the
\* count over the total number of trips.
C16_TopRankings ==
    /\ ChartsDrawn =>
          /\ RealRanking(figures.real_stations_start)
          /\ RealRanking(figures.real_stations_end)
    /\ Written("Top_End_Stations") =>
          /\ RealRanking(sheets.Top_Start_Stations)
          /\ RealRanking(sheets.Top_End_Stations)
          /\ ShareOfAllTrips(sheets.Top_Start_Stations, export_df)
          /\ ShareOfAllTrips(sheets.Top_End_Stations, export_df)

\* The span between the earliest and the latest start of a table, in days.
SpanInDays(table) ==
    Ratio(SetMax({ table[i].started_at.t : i \in 1..Len(table) })
            - SetMin({ table[i].started_at.t : i \in 1..Len(table) }), 24 * 3600)

\* C17: the daily efficiency is the number of trips divided by the span in
\* days from the earliest to the latest start, and the metrics table of the
\* analysis script and the KPI_Dashboard sheet of the export divide by the
\* same number of days and show the same value.
C17_DailyEfficiency ==
    /\ ChartsDrawn =>
          /\ SameValue(figures.system_metrics_data.analysis_period_days,
                       SpanInDays(divvy_dataset))
          /\ SameValue(figures.system_metrics_data.daily_trip_efficiency,
                       Divide(Len(divvy_dataset), SpanInDays(divvy_dataset)))
    /\ Written("KPI_Dashboard") =>
          /\ SameValue(Ratio(sheets.KPI_Dashboard.date_range, 1), SpanInDays(export_df))
          /\ SameValue(sheets.KPI_Dashboard.daily_efficiency,
                       Divide(Len(export_df), SpanInDays(export_df)))
    /\ (ChartsDrawn /\ Written("KPI_Dashboard")) =>
          SameValue(figures.system_metrics_data.daily_trip_efficiency,
                    sheets.KPI_Dashboard.daily_efficiency)

\* The number of distinct start names other than "Unknown".
RealStartStations(table) == Cardinality(StartNames(table) \ {"Unknown"})

\* C18: the station efficiency of the metrics table of the analysis script
\* and of the KPI_Dashboard sheet is the number of all trips, those that
\* start at "Unknown" included, divided by the number of distinct start
\* stations other than "Unknown".
C18_StationEfficiency ==
    /\ (ChartsDrawn /\ RealStartStations(divvy_dataset) > 0) =>
          SameValue(figures.system_metrics_data.average_station_efficiency,
                    Ratio(Len(divvy_dataset), RealStartStations(divvy_dataset)))
    /\ (Written("KPI_Dashboard") /\ RealStartStations(export_df) > 0) =>
          SameValue(sheets.KPI_Dashboard.station_efficiency,
                    Ratio(Len(export_df), RealStartStations(export_df)))

\* A float that is a number: not NaN, not infinite.
Finite(q) == q.den # 0

\* A denominator of the efficiency KPIs of a table is zero.
ZeroDenominator(table) ==
    \/ RealStartStations(table) = 0
    \/ SpanInDays(table).num = 0

\* C19: when a denominator of an efficiency KPI is zero - no start station
\* other than "Unknown", or a span of zero days - the run ends in an error
\* and shows no efficiency value: a run that ends without error has shown
\* finite efficiency values over non-zero denominators.
C19_ZeroDenominatorIsError ==
    /\ ChartsDrawn =>
          /\ ~ZeroDenominator(divvy_dataset)
          /\ Finite(figures.system_metrics_data.daily_trip_efficiency)
          /\ Finite(figures.system_metrics_data.average_station_efficiency)
    /\ Written("KPI_Dashboard") =>
          /\ ~ZeroDenominator(export_df)
          /\ Finite(sheets.KPI_Dashboard.daily_efficiency)
          /\ Finite(sheets.KPI_Dashboard.station_efficiency)

\* The run found no cache and cleaned no file.
NoDataProcessed == ~cache_at_start.exists /\ processed_dataframes = <<>>

\* C20: a run ends with a non-zero exit status only when no data was
\* processed; a run that starts with a cache, or that cleans at least one
\* file, ends with exit status zero.
C20_ExitStatus ==
    Finished =>
        /\ exit_status # 0 => NoDataProcessed
        /\ (cache_at_start.exists \/ processed_dataframes # <<>>) => exit_status = 0

\* ----------------------------------------------------- the end of the export
\* The export script has ended.
ExportEnded == export_pc \in {"done", "crashed"}

\* The number of records of the export's table that start in hour h.
StartsInHour(h) == Cardinality({ i \in 1..Len(export_df) : export_df[i].start_hour = h })

\* C21: when no trip of the dataset starts in hour 8, or none in hour 18, the
\* export ends in an error and writes no Summary_Statistics sheet; a sheet
\* that is written shows the counts of hours that have trips.
C21_PeakHourLookup ==
    /\ (ExportEnded /\ (StartsInHour(8) = 0 \/ StartsInHour(18) = 0)) =>
          /\ export_pc = "crashed"
          /\ export_status # 0
          /\ ~Written("Summary_Statistics")
    /\ Written("Summary_Statistics") =>
          /\ sheets.Summary_Statistics.peak_hour_8 = StartsInHour(8)
          /\ sheets.Summary_Statistics.peak_hour_18 = StartsInHour(18)
          /\ StartsInHour(8) > 0 /\ StartsInHour(18) > 0

\* Every sheet before the summary is written and the dataset has a real end
\* station and a trip in hour 8, but none in hour 18: the lookup has raised.
C21_Witness ==
    /\ export_pc = "crashed"
    /\ Written("Duration_Distribution")
    /\ ~Written("Summary_Statistics")
    /\ nunique(known_end(export_df), "end_station_name") > 0
    /\ StartsInHour(8) > 0 /\ StartsInHour(18) = 0

\* ------------------------------------------------------ the cache round trip
\* This run reads the cache that an earlier run of the sequence has built.
CacheRunAfterBuild == build_runs # {} /\ \A b \in build_runs : run > b

\* The features of this run's dataset have been derived.
FeaturesDerived == pc \in {"summary", "kpi", "charts", "done", "crashed"}

NothingAdmitted ==
    /\ processed_dataframes # <<>>
    /\ \A k \in 1..Len(processed_dataframes) : processed_dataframes[k] = <<>>

\* C23: a cache written by the build path holds at least one record; a build
\* run whose cleaned files hold no admitted record ends at the fatal no-data
\* exit and leaves no cache.
C23_CacheNeverEmpty ==
    /\ cache.exists => cache.rows # <<>>
    /\ (BuildRun /\ Finished /\ NothingAdmitted) =>
          /\ pc = "exited"
          /\ exit_status = 1
          /\ ~cache.exists
====
